---- MODULE Spec2Model ----
(***************************************************************************)
(* The partitioned single-table repository DynamoDBRepository[T] of        *)
(* ginboot (src/unnamed/part_012, lines 1-1243), instantiated at           *)
(* T = TestEntity (src/db_types.go), over a DynamoDB table keyed by        *)
(* (pk, sk) with the secondary index PK-createdAt-sort-index.              *)
(*                                                                         *)
(* The table engine is not code of the repository.  It is modelled by the  *)
(* behaviour of the requests the repository issues: GetItem, PutItem,      *)
(* DeleteItem, BatchWriteItem, and Query on the base table (ascending sort *)
(* key) and on the index (descending createdAt).  A request may fail       *)
(* (network, throttling), and one Query response carries a bounded amount  *)
(* of data; the repository never follows the continuation cursor.          *)
(*                                                                         *)
(* The calls that write are the actions.  The calls that read leave the    *)
(* table as it is: each is an operator of the table and its arguments,     *)
(* giving what the call returns (a set of results where the engine may     *)
(* answer in more than one way).  UpdatedAt, which no call reads, is left  *)
(* out of the item.                                                        *)
(***************************************************************************)
EXTENDS Integers, Sequences, FiniteSets, TLC

\* ------------------------------------------------------------------ bounds

\* The clock runs from 1 to MaxTime milliseconds.
MaxTime == 2

\* An item is rewritten until it reaches this version.
MaxVersion == 2

\* The number of items one Query response carries: it stands for the engine's
\* cap on the data of one response (about 1 MB), which the large-dataset
\* test crosses with 1500 items of about 1 KB.
ResponseLimit == 2

\* ----------------------------------------------------------------- domains

Partitions == {"A", "B"}

Ids == {"1", "2", "3"}

\* The (partitionKey, id) pairs the callers of Spec use: two ids in one
\* partition, and one of them in a second partition too.
CrudKeys == {<<"A", "1">>, <<"A", "2">>, <<"B", "1">>}

\* The pairs the callers of SpecList use: a partition of three ids.
ListKeys == {<<"A", "1">>, <<"A", "2">>, <<"A", "3">>, <<"B", "1">>}

\* The zero value of TestEntity (var result T).
ZeroEntity == [ID |-> "", Name |-> "", Value |-> 0, CreatedAt |-> 0]

\* The fields of a TestEntity besides its ID, as the callers fill them.
\* CreatedAt 0 is "unset".
Bodies ==
    { [Name |-> "x", Value |-> 0,  CreatedAt |-> 0],
      [Name |-> "y", Value |-> 10, CreatedAt |-> 2] }

\* TestEntity{ID, Name, Value, CreatedAt}: ID carries the tag ginboot:"id".
Entity(entityId, body) ==
    [ID |-> entityId, Name |-> body.Name, Value |-> body.Value,
     CreatedAt |-> body.CreatedAt]

Nil == "nil"

ErrNotFound == "item not found"

\* An error of the engine: network, throttling, capacity, timeout.
ErrEngine == "engine error"

\* json.Unmarshal of an empty text.
ErrJSON == "unexpected end of JSON input"

\* The engine refuses a BatchWriteItem request that names a key twice.
ErrValidation == "validation error"

\* ------------------------------------------------------------ conversions

Min(a, b) == IF a < b THEN a ELSE b

\* The elements of a sequence.
Range(s) == {s[i] : i \in DOMAIN s}

\* The order of sort keys in the base table: strings by their bytes.
SortKeyRank(sk) == CASE sk = "1" -> 1 [] sk = "2" -> 2 [] sk = "3" -> 3 [] OTHER -> 0

\* json.Marshal of a TestEntity whose Name carried the tag json:"-".
MarshalWithoutName(doc) ==
    << <<"ID", doc.ID>>, <<"Value", doc.Value>>, <<"CreatedAt", doc.CreatedAt>> >>

\* reflect's val.Type().Name(): the struct type of an entity.  TwoIds and NoId
\* are the shapes of entities with two fields tagged ginboot:"id" (ID and
\* Alias) and with none.
TypeName(entity) ==
    IF "Name" \in DOMAIN entity THEN "TestEntity"
    ELSE IF "Tags" \in DOMAIN entity THEN "CacheEntry"
    ELSE IF "CacheKey" \in DOMAIN entity THEN "TagEntry"
    ELSE IF "Alias" \in DOMAIN entity THEN "TwoIds"
    ELSE "NoId"

\* The fields of the struct type tagged ginboot:"id", in the order of their
\* declaration.
IdFields(entity) ==
    CASE TypeName(entity) = "TestEntity" -> <<"ID">>
      [] TypeName(entity) = "CacheEntry" -> <<"PK">>
      [] TypeName(entity) = "TagEntry"   -> <<"ID">>
      [] TypeName(entity) = "TwoIds"     -> <<"ID", "Alias">>
      [] OTHER                           -> <<>>

\* The exported fields json.Marshal writes, in the order of their declaration
\* (tags and sk are omitempty, Tag and CacheKey are json:"-").
JSONFields(entity) ==
    CASE TypeName(entity) = "CacheEntry" ->
             <<"PK", "Data">> \o (IF entity["SK"] = "" THEN <<>> ELSE <<"SK">>)
             \o <<"TTL", "CreatedAt">> \o (IF entity["Tags"] = <<>> THEN <<>> ELSE <<"Tags">>)
      [] TypeName(entity) = "TagEntry" -> <<"ID", "PK", "SK", "TTL", "CreatedAt">>
      [] TypeName(entity) = "TwoIds"   -> <<"ID", "Alias", "CreatedAt">>
      [] OTHER                         -> <<"Key", "CreatedAt">>

\* encoding/json writes a []byte as a base64 string and reads it back.
Base64(bytes) == <<"base64", bytes>>

Unbase64(text) == text[2]

\* The JSON value of a field: Data is the only []byte.
JSONValue(f, v) == IF f = "Data" THEN Base64(v) ELSE v

\* json.Marshal of an entity: an object of its exported fields, in order.
Marshal(doc) ==
    IF TypeName(doc) = "TestEntity"
    THEN << <<"ID", doc.ID>>, <<"Name", doc.Name>>,
            <<"Value", doc.Value>>, <<"CreatedAt", doc.CreatedAt>> >>
    ELSE [i \in DOMAIN JSONFields(doc) |->
             <<JSONFields(doc)[i], JSONValue(JSONFields(doc)[i], doc[JSONFields(doc)[i]])>>]

\* The value of the member named f of a JSON object, or zero when it has none.
Member(data, f, zero) ==
    IF \E i \in 1..Len(data) : data[i][1] = f
    THEN data[CHOOSE i \in 1..Len(data) : data[i][1] = f][2]
    ELSE zero

\* json.Unmarshal into a zero TestEntity: each member present sets its field.
Unmarshal(data) ==
    [ID        |-> Member(data, "ID", ZeroEntity.ID),
     Name      |-> Member(data, "Name", ZeroEntity.Name),
     Value     |-> Member(data, "Value", ZeroEntity.Value),
     CreatedAt |-> Member(data, "CreatedAt", ZeroEntity.CreatedAt)]

\* getPK: the name of the entity's type.
getPK(entity) == TypeName(entity)

\* A partition key that leaves the caller's partitionKey out.
TypeOnlyPK(entity, partitionKey) == getPK(entity) \o "#"

\* The composite partition key: getPK(entity) + "#" + partitionKey.
CompositePK(entity, partitionKey) == getPK(entity) \o "#" \o partitionKey

\* ginboot:"id" tag not found in struct.
ErrNoTag == "id tag not found"

\* getGinbootId: the value of the first field tagged ginboot:"id", an error
\* when no field is.
getGinbootId(entity) ==
    IF IdFields(entity) = <<>> THEN [err |-> ErrNoTag, id |-> ""]
    ELSE [err |-> Nil, id |-> entity[IdFields(entity)[1]]]

\* getCreatedAt: the value of the field named CreatedAt.
getCreatedAt(entity) == [err |-> Nil, createdAt |-> entity.CreatedAt]

\* ------------------------------------------------------------------ state

VARIABLES
    table,   \* the items of the table: a set of DynamoDBItem, one per (PK, SK)
    now,     \* time.Now() in milliseconds
    live,    \* <<partitionKey, entity>>: the entity last committed under each
             \* (partitionKey, id) and not deleted since, as the callers gave it
    ttl,     \* the repository's ttl in milliseconds, 0 when it has none
    schema,  \* whether the engine holds the table of config.TableName
    creates, \* the CreateTable requests the engine carried out
    boot,    \* the constructors of repositories under way, one per process
    writers, \* the calls of Save under way, one per concurrent writer
    cached   \* <<key, data, tags, ttl>>: the calls of the cache's Set that
             \* returned nil, the last for each key, no write to the key since

vars == <<table, now, live, ttl, schema, creates, boot, writers, cached>>

\* What the calls of a constructed repository on an existing table leave alone.
outside == <<schema, creates, boot, writers, cached>>

\* time.Time.Unix() counts seconds, UnixMilli() milliseconds.
MillisPerSecond == 1000

\* ----------------------------------------------------------------- engine

\* GetItem: the item of the key, if any.
GetItem(t, pk, sk) == {it \in t : it.PK = pk /\ it.SK = sk}

\* PutItem: the item replaces the item of its key.
PutItem(t, item) == {it \in t : ~(it.PK = item.PK /\ it.SK = item.SK)} \cup {item}

\* DeleteItem: the item of the key is removed; a missing item is no error.
DeleteItem(t, pk, sk) == {it \in t : ~(it.PK = pk /\ it.SK = sk)}

\* The items of one partition.
PartitionItems(t, pk) == {it \in t : it.PK = pk}

\* The sequences that list every element of the set S once.
Listings(S) ==
    {s \in [1..Cardinality(S) -> S] : \A x \in S : \E i \in DOMAIN s : s[i] = x}

\* The first items of a listing that fit one response.
Truncate(items) == SubSeq(items, 1, Min(Len(items), ResponseLimit))

\* Query on the base table, pk = :pk: ascending sort key, one response.
QueryTable(t, pk) ==
    LET all == CHOOSE s \in Listings(PartitionItems(t, pk)) :
                   \A i, j \in DOMAIN s : i < j => SortKeyRank(s[i].SK) < SortKeyRank(s[j].SK)
    IN  Truncate(all)

\* Query on PK-createdAt-sort-index, ScanIndexForward false: descending
\* createdAt, items of equal createdAt in any order, one response.  The set
\* of the responses the engine may give.
QueryIndex(t, pk) ==
    {Truncate(s) : s \in {p \in Listings(PartitionItems(t, pk)) :
                            \A i, j \in DOMAIN p : i < j => p[i].CreatedAt >= p[j].CreatedAt}}

\* ------------------------------------------------------------- repository

\* var item DynamoDBItem.
ZeroItem == [ID |-> "", CreatedAt |-> 0, PK |-> "", SK |-> "", Data |-> <<>>, Version |-> 0,
             TTL |-> 0]

\* findById without its test of output.Item == nil: UnmarshalMap of no
\* attributes leaves the zero item.
findByIdUnchecked(t, pk, sk, getOk) ==
    IF ~getOk THEN [err |-> ErrEngine, item |-> {}]
    ELSE IF GetItem(t, pk, sk) = {} THEN [err |-> Nil, item |-> {ZeroItem}]
    ELSE [err |-> Nil, item |-> GetItem(t, pk, sk)]

\* findById: GetItem, "item not found" for an empty response.
findById(t, pk, sk, getOk) ==
    IF ~getOk THEN [err |-> ErrEngine, item |-> {}]
    ELSE IF GetItem(t, pk, sk) = {} THEN [err |-> ErrNotFound, item |-> {}]
    ELSE [err |-> Nil, item |-> GetItem(t, pk, sk)]

\* FindById: findById, then json.Unmarshal of the item's data, which fails on
\* an empty text.
FindById(t, entityId, partitionKey, getOk) ==
    LET pk   == CompositePK(ZeroEntity, partitionKey)
        r    == findById(t, pk, entityId, getOk)
        item == CHOOSE it \in r.item : TRUE
    IN  IF r.err # Nil THEN [err |-> r.err, result |-> ZeroEntity]
        ELSE IF item.Data = <<>> THEN [err |-> ErrJSON, result |-> ZeroEntity]
        ELSE [err |-> Nil, result |-> Unmarshal(item.Data)]

\* The version a write stamps on top of the version it read.
NextVersion(version) == version + 1

\* An envelope that keeps the ttl attribute of the item read.
NewItemKeepsTTL(t, doc, partitionKey, getOk, clock, duration) ==
    LET pk    == CompositePK(doc, partitionKey)
        id    == getGinbootId(doc).id
        r     == findById(t, pk, id, getOk)
        old   == CHOOSE it \in r.item : TRUE
        version   == IF r.err = Nil THEN old.Version ELSE 0
        createdAt == IF r.err = Nil THEN old.CreatedAt ELSE getCreatedAt(doc).createdAt
    IN  [ID |-> id,
         CreatedAt |-> IF createdAt = 0 THEN clock ELSE createdAt,
         PK |-> pk, SK |-> id,
         Data |-> Marshal(doc),
         Version |-> NextVersion(version),
         TTL |-> IF r.err = Nil /\ old.TTL # 0 THEN old.TTL
                 ELSE IF duration > 0 THEN (clock + duration) \div MillisPerSecond
                 ELSE 0]

\* The envelope Save and SaveAll build for doc: the version and createdAt of
\* the item read, when the read succeeded, else 0 and the entity's CreatedAt;
\* a createdAt of 0 becomes the time of the write.  A repository with a ttl
\* stamps TTL, the second at which the item expires; the attribute is left out
\* (0) otherwise.
NewItem(t, doc, partitionKey, getOk, clock, duration) ==
    LET pk    == CompositePK(doc, partitionKey)
        id    == getGinbootId(doc).id
        r     == findById(t, pk, id, getOk)
        old   == CHOOSE it \in r.item : TRUE
        version   == IF r.err = Nil THEN old.Version ELSE 0
        createdAt == IF r.err = Nil THEN old.CreatedAt ELSE getCreatedAt(doc).createdAt
    IN  [ID |-> id,
         CreatedAt |-> IF createdAt = 0 THEN clock ELSE createdAt,
         PK |-> pk, SK |-> id,
         Data |-> Marshal(doc),
         Version |-> NextVersion(version),
         TTL |-> IF duration > 0 THEN (clock + duration) \div MillisPerSecond ELSE 0]

\* The entity of a key, as committed.
Commit(l, partitionKey, doc) ==
    {x \in l : ~(x[1] = partitionKey /\ x[2].ID = doc.ID)} \cup {<<partitionKey, doc>>}

\* The key is deleted.
Forget(l, partitionKey, id) == {x \in l : ~(x[1] = partitionKey /\ x[2].ID = id)}

\* ------------------------------------------------------------------ reads

\* A Go value held in an interface{}: its dynamic type and the value.
StringValue(x) == [type |-> "string", val |-> x]

IntValue(x) == [type |-> "int", val |-> x]

Int64Value(x) == [type |-> "int64", val |-> x]

\* A map[string]interface{} of operators: pairs <<op, bound>>, the bound a
\* time.Time given by its UnixMilli().
OperatorMap(ops) == [type |-> "map[string]interface {}", val |-> ops]

\* val.FieldByName(field).Interface() on a TestEntity.
FieldValue(entity, field) ==
    CASE field = "ID"        -> StringValue(entity.ID)
      [] field = "Name"      -> StringValue(entity.Name)
      [] field = "Value"     -> IntValue(entity.Value)
      [] field = "CreatedAt" -> Int64Value(entity.CreatedAt)

\* fieldValue == value on interfaces, and reflect.DeepEqual on them: the same
\* dynamic type and the same value.
InterfaceEqual(a, b) == a.type = b.type /\ a.val = b.val

\* A loop over opMap whose $lt lets the bound itself through.
MatchOperatorsUpToBound(fieldValue, opMap) ==
    \A o \in opMap :
        CASE o[1] = "$gte" -> fieldValue.val >= o[2]
          [] o[1] = "$lt"  -> fieldValue.val <= o[2]
          [] OTHER         -> FALSE

\* The loop over opMap: $gte and $lt compare the int64 field with the bound
\* (DeepEqual of an int64 and a time.Time is false); any other operator is no
\* match.
MatchOperators(fieldValue, opMap) ==
    \A o \in opMap :
        CASE o[1] = "$gte" -> fieldValue.val >= o[2]
          [] o[1] = "$lt"  -> fieldValue.val < o[2]
          [] OTHER         -> FALSE

\* The match of FindBy, FindByFilters, CountBy and CountByFilters on one field.
MatchField(entity, field, value) ==
    IF value.type = OperatorMap({}).type
    THEN MatchOperators(FieldValue(entity, field), value.val)
    ELSE InterfaceEqual(FieldValue(entity, field), value)

\* The match of FindByFilters: every filter matches.
MatchFilters(entity, filters) ==
    \A f \in filters : MatchField(entity, f[1], f[2])

\* The match of FindOneByFilters and FindByPaginated: fieldValue != value on
\* every filter, with no case for operators.
MatchEqual(entity, filters) ==
    \A f \in filters : InterfaceEqual(FieldValue(entity, f[1]), f[2])

\* The loop over output.Items: the data of each item, unmarshalled.
Decode(items) == [i \in DOMAIN items |-> Unmarshal(items[i].Data)]

\* FindAll(partitionKey): the results the call may return.
FindAll(t, partitionKey, queryOk) ==
    IF ~queryOk THEN {[err |-> ErrEngine, results |-> <<>>]}
    ELSE {[err |-> Nil, results |-> Decode(items)]
             : items \in QueryIndex(t, CompositePK(ZeroEntity, partitionKey))}

\* FindByFilters(filters, partitionKey): the results the call may return.
FindByFilters(t, filters, partitionKey, queryOk) ==
    IF ~queryOk THEN {[err |-> ErrEngine, results |-> <<>>]}
    ELSE {[err |-> Nil,
           results |-> SelectSeq(Decode(items), LAMBDA e : MatchFilters(e, filters))]
             : items \in QueryIndex(t, CompositePK(ZeroEntity, partitionKey))}

\* FindBy(field, value, partitionKey): the loop of FindByFilters on one field.
FindBy(t, field, value, partitionKey, queryOk) ==
    IF ~queryOk THEN {[err |-> ErrEngine, results |-> <<>>]}
    ELSE {[err |-> Nil,
           results |-> SelectSeq(Decode(items), LAMBDA e : MatchField(e, field, value))]
             : items \in QueryIndex(t, CompositePK(ZeroEntity, partitionKey))}

\* FindOneByFilters(filters, partitionKey): the first item of the base table's
\* response that equals every filter.
FindOneByFilters(t, filters, partitionKey, queryOk) ==
    LET found == SelectSeq(Decode(QueryTable(t, CompositePK(ZeroEntity, partitionKey))),
                        LAMBDA e : MatchEqual(e, filters))
    IN  IF ~queryOk THEN [err |-> ErrEngine, result |-> ZeroEntity]
        ELSE IF Len(found) > 0 THEN [err |-> Nil, result |-> found[1]]
        ELSE [err |-> ErrNotFound, result |-> ZeroEntity]

\* FindOneBy(field, value, partitionKey): fieldValue == value on one field.
FindOneBy(t, field, value, partitionKey, queryOk) ==
    LET found == SelectSeq(Decode(QueryTable(t, CompositePK(ZeroEntity, partitionKey))),
                        LAMBDA e : InterfaceEqual(FieldValue(e, field), value))
    IN  IF ~queryOk THEN [err |-> ErrEngine, result |-> ZeroEntity]
        ELSE IF Len(found) > 0 THEN [err |-> Nil, result |-> found[1]]
        ELSE [err |-> ErrNotFound, result |-> ZeroEntity]

\* CountBy(field, value, partitionKey): a Query on the base table, the items
\* of the response that match counted.
CountBy(t, field, value, partitionKey, queryOk) ==
    IF ~queryOk THEN [err |-> ErrEngine, count |-> 0]
    ELSE [err |-> Nil,
          count |-> Len(SelectSeq(Decode(QueryTable(t, CompositePK(ZeroEntity, partitionKey))),
                                  LAMBDA e : MatchField(e, field, value)))]

\* CountByFilters(filters, partitionKey): the loop of CountBy on every filter.
CountByFilters(t, filters, partitionKey, queryOk) ==
    IF ~queryOk THEN [err |-> ErrEngine, count |-> 0]
    ELSE [err |-> Nil,
          count |-> Len(SelectSeq(Decode(QueryTable(t, CompositePK(ZeroEntity, partitionKey))),
                                  LAMBDA e : MatchFilters(e, filters)))]

\* ExistsBy(field, value, partitionKey): CountBy, count > 0.
ExistsBy(t, field, value, partitionKey, queryOk) ==
    LET r == CountBy(t, field, value, partitionKey, queryOk)
    IN  IF r.err # Nil THEN [err |-> r.err, exists |-> FALSE]
        ELSE [err |-> Nil, exists |-> r.count > 0]

\* ExistsByFilters(filters, partitionKey): CountByFilters, count > 0.
ExistsByFilters(t, filters, partitionKey, queryOk) ==
    LET r == CountByFilters(t, filters, partitionKey, queryOk)
    IN  IF r.err # Nil THEN [err |-> r.err, exists |-> FALSE]
        ELSE [err |-> Nil, exists |-> r.count > 0]

\* BatchGetItem on the keys (pk, id), id in ids, with ConsistentRead: the
\* items found, in any order; a request that names a key twice is refused.
\* The set of the responses the engine may give.
BatchGetItem(t, pk, ids) ==
    Listings({it \in PartitionItems(t, pk) : \E i \in DOMAIN ids : it.SK = ids[i]})

\* The engine refuses a BatchGetItem request of more keys than this.
BatchGetLimit == 100

\* FindAllById(ids, partitionKey): one BatchGetItem, then sort.Slice of the
\* entities by their own CreatedAt field, descending; entities of equal
\* CreatedAt stay in an order the sort does not fix.  The results the call
\* may return.
FindAllById(t, ids, partitionKey, getOk) ==
    IF Len(ids) = 0 THEN {[err |-> Nil, results |-> <<>>]}
    ELSE IF ~getOk THEN {[err |-> ErrEngine, results |-> <<>>]}
    ELSE IF Len(ids) > BatchGetLimit THEN {[err |-> ErrValidation, results |-> <<>>]}
    ELSE IF \E i, j \in DOMAIN ids : i # j /\ ids[i] = ids[j]
         THEN {[err |-> ErrValidation, results |-> <<>>]}
    ELSE {[err |-> Nil, results |-> s]
             : s \in UNION {{x \in Listings(Range(Decode(items))) :
                               \A i, j \in DOMAIN x :
                                   i < j => getCreatedAt(x[i]).createdAt
                                                >= getCreatedAt(x[j]).createdAt}
                            : items \in BatchGetItem(t, CompositePK(ZeroEntity, partitionKey), ids)}}

\* PageRequest{Page, Size}; Sort is read by no call.
PageRequest(page, size) == [Page |-> page, Size |-> size]

\* PageResponse[T]{}.
ZeroPageResponse ==
    [Contents |-> <<>>, NumberOfElements |-> 0, Pageable |-> PageRequest(0, 0),
     TotalElements |-> 0, TotalPages |-> 0]

\* The page FindAllPaginated cuts from results: everything in one page of
\* size -1, else results[start:end] with start and end clamped to the length.
PageOf(results, pageRequest) ==
    LET totalElements == Len(results)
        start == Min((pageRequest.Page - 1) * pageRequest.Size, totalElements)
        end   == Min((pageRequest.Page - 1) * pageRequest.Size + pageRequest.Size,
                     totalElements)
        pagedResults == IF start >= totalElements THEN <<>>
                        ELSE SubSeq(results, start + 1, end)
    IN  IF pageRequest.Size = -1
        THEN [Contents |-> results, NumberOfElements |-> Len(results),
              Pageable |-> pageRequest, TotalElements |-> Len(results),
              TotalPages |-> 1]
        ELSE [Contents |-> pagedResults, NumberOfElements |-> Len(pagedResults),
              Pageable |-> pageRequest, TotalElements |-> totalElements,
              TotalPages |-> (totalElements + pageRequest.Size - 1) \div pageRequest.Size]

\* The page FindByPaginated cuts from results: only end is clamped.
FilteredPageOf(results, pageRequest) ==
    LET totalElements == Len(results)
        start == (pageRequest.Page - 1) * pageRequest.Size
        end   == Min(start + pageRequest.Size, totalElements)
        pagedResults == IF start >= totalElements THEN <<>>
                        ELSE SubSeq(results, start + 1, end)
    IN  IF pageRequest.Size = -1
        THEN [Contents |-> results, NumberOfElements |-> Len(results),
              Pageable |-> pageRequest, TotalElements |-> Len(results),
              TotalPages |-> 1]
        ELSE [Contents |-> pagedResults, NumberOfElements |-> Len(pagedResults),
              Pageable |-> pageRequest, TotalElements |-> totalElements,
              TotalPages |-> (totalElements + pageRequest.Size - 1) \div pageRequest.Size]

\* FindAllPaginated(pageRequest, partitionKey): a Query on the base table.
FindAllPaginated(t, pageRequest, partitionKey, queryOk) ==
    IF ~queryOk THEN [err |-> ErrEngine, page |-> ZeroPageResponse]
    ELSE [err |-> Nil,
          page |-> PageOf(Decode(QueryTable(t, CompositePK(ZeroEntity, partitionKey))),
                          pageRequest)]

\* FindByPaginated(pageRequest, filters, partitionKey): a Query on the base
\* table, the items that equal every filter.
FindByPaginated(t, pageRequest, filters, partitionKey, queryOk) ==
    IF ~queryOk THEN [err |-> ErrEngine, page |-> ZeroPageResponse]
    ELSE [err |-> Nil,
          page |-> FilteredPageOf(
                       SelectSeq(Decode(QueryTable(t, CompositePK(ZeroEntity, partitionKey))),
                              LAMBDA e : MatchEqual(e, filters)),
                       pageRequest)]

\* ---------------------------------------------------------------- actions

\* The processes that construct repositories.
Procs == {"p1", "p2"}

\* The concurrent writers.
Writers == {"w1", "w2"}

\* A constructor that has returned its repository.
Constructed == [pc |-> "done", withTTL |-> FALSE, failed |-> "none"]

\* A writer that is in no call.
Idle == [doc |-> ZeroEntity, item |-> ZeroItem, pc |-> "idle"]

\* The table exists, created once, and every constructor has returned.
Provisioned ==
    /\ schema = "active"
    /\ creates = 1
    /\ boot = [p \in Procs |-> Constructed]
    /\ writers = [w \in Writers |-> Idle]
    /\ cached = {}

Init ==
    /\ table = {}
    /\ now = 1
    /\ live = {}
    /\ ttl = 0
    /\ Provisioned

\* Time passes.
Tick ==
    /\ now < MaxTime
    /\ now' = now + 1
    /\ UNCHANGED <<table, live, ttl, outside>>

\* Save(doc, partitionKey): the read of the current item answers or fails
\* (getOk), and so does the PutItem (putOk), whose error Save returns.  An
\* entity with no identifier is turned down before any request.
SaveCall(doc, partitionKey, getOk, putOk) ==
    IF getGinbootId(doc).err # Nil THEN UNCHANGED vars
    ELSE \E newItem \in {NewItem(table, doc, partitionKey, getOk, now, ttl)} :
             /\ newItem.Version <= MaxVersion
             /\ table' = IF putOk THEN PutItem(table, newItem) ELSE table
             /\ live' = IF putOk THEN Commit(live, partitionKey, doc) ELSE live
             /\ UNCHANGED <<now, ttl, outside>>

\* The error Save returns: that of PutItem.  The error of the read before
\* the write is taken for "no item yet" and returned nowhere.
SaveError(doc, partitionKey, getOk, putOk) ==
    IF getGinbootId(doc).err # Nil THEN getGinbootId(doc).err
    ELSE IF putOk THEN Nil ELSE ErrEngine

\* Save, and SaveOrUpdate and Update, which only call it.
Save(keys, bodies) ==
    \E k \in keys, body \in bodies, getOk \in BOOLEAN, putOk \in BOOLEAN :
        SaveCall(Entity(k[2], body), k[1], getOk, putOk)

\* Delete(id, partitionKey): DeleteItem, whose error Delete returns.
DeleteCall(id, partitionKey, deleteOk) ==
    LET pk == CompositePK(ZeroEntity, partitionKey)
    IN  /\ table' = IF deleteOk THEN DeleteItem(table, pk, id) ELSE table
        /\ live' = IF deleteOk THEN Forget(live, partitionKey, id) ELSE live
        /\ UNCHANGED <<now, ttl, outside>>

Delete(keys) ==
    \E k \in keys, deleteOk \in BOOLEAN : DeleteCall(k[2], k[1], deleteOk)

\* ---------------------------------------------------------- batch writes

\* SaveAll and DeleteAll send their requests in chunks of this many.
WriteChunk == 25

\* The chunks a list of n requests makes.
NumChunks(n) == (n + WriteChunk - 1) \div WriteChunk

\* Chunk k of the requests: writeRequests[i:end], i = (k-1)*25.
Chunk(requests, k) ==
    SubSeq(requests, (k - 1) * WriteChunk + 1, Min(k * WriteChunk, Len(requests)))

\* Two requests of the chunk name one key.
HasDuplicateKeys(chunk) ==
    \E i, j \in DOMAIN chunk :
        i # j /\ chunk[i].PK = chunk[j].PK /\ chunk[i].SK = chunk[j].SK

\* The requests of chunk k that the engine processes: those whose index in
\* the list is not in unprocessed.  The others come back in the response's
\* UnprocessedItems, with no error, and neither SaveAll nor DeleteAll reads
\* the response.
Processed(requests, k, unprocessed) ==
    LET first == (k - 1) * WriteChunk
        chunk == Chunk(requests, k)
        kept  == SelectSeq([i \in DOMAIN chunk |-> first + i],
                           LAMBDA n : n \notin unprocessed)
    IN  [i \in DOMAIN kept |-> requests[kept[i]]]

\* BatchWriteItem on the requests the engine processes, which name distinct
\* keys: every put and delete of them is applied, to the table and to what is
\* committed (s = [table, live]).
ApplyRequests(s, chunk) ==
    LET puts == {q \in Range(chunk) : q.kind = "put"}
    IN  [table |-> {it \in s.table :
                       \A q \in Range(chunk) : ~(it.PK = q.PK /\ it.SK = q.SK)}
                   \cup {q.item : q \in puts},
         live  |-> {x \in s.live :
                       \A q \in Range(chunk) :
                           ~(x[1] = q.partitionKey /\ x[2].ID = q.SK)}
                   \cup {<<q.partitionKey, q.doc>> : q \in puts}]

RECURSIVE RunChunksPastFailure(_, _, _, _, _)
\* A loop that goes on to the next chunk when one fails and returns the error
\* at the end.
RunChunksPastFailure(s, requests, k, failAt, unprocessed) ==
    IF k > NumChunks(Len(requests))
    THEN [err |-> IF failAt \in 1..NumChunks(Len(requests)) THEN ErrEngine ELSE Nil,
          table |-> s.table, live |-> s.live]
    ELSE IF k = failAt
         THEN RunChunksPastFailure(s, requests, k + 1, failAt, unprocessed)
    ELSE IF HasDuplicateKeys(Chunk(requests, k))
         THEN [err |-> ErrValidation, table |-> s.table, live |-> s.live]
    ELSE RunChunksPastFailure(ApplyRequests(s, Processed(requests, k, unprocessed)),
                              requests, k + 1, failAt, unprocessed)

RECURSIVE RunChunks(_, _, _, _, _)
\* The loop over the chunks, from chunk k on: each chunk is one BatchWriteItem;
\* the first error is returned at once, and what earlier chunks wrote stays.
\* Chunk failAt meets an error of the engine (0: none does).
RunChunks(s, requests, k, failAt, unprocessed) ==
    IF k > NumChunks(Len(requests)) THEN [err |-> Nil, table |-> s.table, live |-> s.live]
    ELSE IF k = failAt THEN [err |-> ErrEngine, table |-> s.table, live |-> s.live]
    ELSE IF HasDuplicateKeys(Chunk(requests, k))
         THEN [err |-> ErrValidation, table |-> s.table, live |-> s.live]
    ELSE RunChunks(ApplyRequests(s, Processed(requests, k, unprocessed)),
                   requests, k + 1, failAt, unprocessed)

\* The put requests SaveAll builds, each from a read of the table as it is
\* before any chunk is written; the reads of getFails fail.
PutRequests(t, docs, partitionKey, getFails, clock, duration) ==
    [i \in 1..Len(docs) |->
        LET item == NewItem(t, docs[i], partitionKey, i \notin getFails, clock, duration)
        IN  [doc |-> docs[i], partitionKey |-> partitionKey,
             PK |-> item.PK, SK |-> item.SK, item |-> item, kind |-> "put"]]

\* SaveAll(docs, partitionKey).
SaveAllCall(docs, partitionKey, getFails, failAt, unprocessed) ==
    \E requests \in {PutRequests(table, docs, partitionKey, getFails, now, ttl)} :
        \E r \in {IF Len(docs) = 0 THEN [err |-> Nil, table |-> table, live |-> live]
                  ELSE RunChunks([table |-> table, live |-> live], requests, 1,
                                 failAt, unprocessed)} :
            /\ \A i \in 1..Len(docs) : requests[i].item.Version <= MaxVersion
            /\ table' = r.table
            /\ live' = r.live
            /\ UNCHANGED <<now, ttl, outside>>

\* The lists of at most two entities of one partition.
DocLists(keys, bodies, partitionKey) ==
    UNION {[1..n -> {Entity(k[2], b) : k \in {x \in keys : x[1] = partitionKey}, b \in bodies}]
           : n \in 0..2}

\* The requests of a list of n that are sent before chunk failAt fails.
Issued(n, failAt) ==
    IF failAt = 0 THEN 1..n ELSE 1..Min(n, (failAt - 1) * WriteChunk)

\* SaveAll on a list of the caller: a chunk may fail, the engine may leave
\* any of the requests sent unprocessed, and the read of any entity that is
\* written may fail (a failed read of an entity that is not written shows
\* nowhere).
SaveAll(keys, bodies) ==
    \E partitionKey \in Partitions :
        \E docs \in DocLists(keys, bodies, partitionKey) :
            \E failAt \in 0..NumChunks(Len(docs)) :
                \E unprocessed \in SUBSET Issued(Len(docs), failAt) :
                    \E getFails \in SUBSET (Issued(Len(docs), failAt) \ unprocessed) :
                        SaveAllCall(docs, partitionKey, getFails, failAt, unprocessed)

\* The delete requests DeleteAll builds.
DeleteRequests(ids, partitionKey) ==
    [i \in 1..Len(ids) |->
        [partitionKey |-> partitionKey,
         PK |-> CompositePK(ZeroEntity, partitionKey), SK |-> ids[i], kind |-> "delete"]]

\* DeleteAll(ids, partitionKey).
DeleteAllCall(ids, partitionKey, failAt, unprocessed) ==
    \E r \in {IF Len(ids) = 0 THEN [err |-> Nil, table |-> table, live |-> live]
              ELSE RunChunks([table |-> table, live |-> live],
                             DeleteRequests(ids, partitionKey), 1, failAt, unprocessed)} :
        /\ table' = r.table
        /\ live' = r.live
        /\ UNCHANGED <<now, ttl, outside>>

\* The lists of at most two ids of one partition.
IdLists(keys, partitionKey) ==
    UNION {[1..n -> {k[2] : k \in {x \in keys : x[1] = partitionKey}}] : n \in 0..2}

DeleteAll(keys) ==
    \E partitionKey \in Partitions :
        \E ids \in IdLists(keys, partitionKey) :
            \E failAt \in 0..NumChunks(Len(ids)) :
                \E unprocessed \in SUBSET Issued(Len(ids), failAt) :
                    DeleteAllCall(ids, partitionKey, failAt, unprocessed)

Next(keys, bodies) ==
    \/ Tick
    \/ Save(keys, bodies)
    \/ SaveAll(keys, bodies)
    \/ Delete(keys)
    \/ DeleteAll(keys)

NextCrud == Next(CrudKeys, Bodies)

\* The callers of ListKeys write one entity at a time.
NextList ==
    \/ Tick
    \/ Save(ListKeys, Bodies)
    \/ Delete(ListKeys)

\* The callers of CrudKeys.
Spec == Init /\ [][NextCrud]_vars

\* The callers of ListKeys.
SpecList == Init /\ [][NextList]_vars

\* The keys of the callers that filter by range: one partition, larger than
\* one response of the engine when all three are stored.
RangeKeys == {<<"A", "1">>, <<"A", "2">>, <<"A", "3">>}

NextRange ==
    \/ Tick
    \/ Save(RangeKeys, Bodies)
    \/ Delete(RangeKeys)

\* The callers of RangeKeys.
SpecRange == Init /\ [][NextRange]_vars

\* ------------------------------------------------------------ long lists

\* strconv of a digit.
Digits == <<"0", "1", "2", "3", "4", "5", "6", "7", "8", "9">>

\* fmt.Sprintf("large-%d", i), for i below 1000.
LargeId(i) ==
    "large-" \o (IF i >= 100 THEN Digits[(i \div 100) + 1] ELSE "")
             \o (IF i >= 10 THEN Digits[((i \div 10) % 10) + 1] ELSE "")
             \o Digits[(i % 10) + 1]

\* The lengths of the long lists: two chunks, the second of one request, and
\* three chunks.
BatchLengths == {26, 55}

\* The partition of the long lists.
BatchPartition == "A"

\* The body of the entities of the long lists.
BatchBodies == {[Name |-> "x", Value |-> 0, CreatedAt |-> 0]}

\* A list of n entities with one body, and the list of their ids.
LargeDocs(n, body) == [i \in 1..n |-> Entity(LargeId(i), body)]

LargeIds(n) == [i \in 1..n |-> LargeId(i)]

\* What the engine leaves unprocessed of a long list: nothing, or the first
\* request of the first or of the second chunk.
BatchHoles(n, failAt) == {{}} \cup {{j} : j \in Issued(n, failAt) \cap {1, 26}}

\* SaveAll on a long list.
SaveAllLarge ==
    \E n \in BatchLengths, body \in BatchBodies :
        \E failAt \in 0..NumChunks(n) :
            \E unprocessed \in BatchHoles(n, failAt) :
                SaveAllCall(LargeDocs(n, body), BatchPartition, {}, failAt, unprocessed)

\* DeleteAll on a long list.
DeleteAllLarge ==
    \E n \in BatchLengths :
        \E failAt \in 0..NumChunks(n) :
            \E unprocessed \in BatchHoles(n, failAt) :
                DeleteAllCall(LargeIds(n), BatchPartition, failAt, unprocessed)

NextBatch ==
    \/ SaveAllLarge
    \/ DeleteAllLarge

\* The callers of long lists.
SpecBatch == Init /\ [][NextBatch]_vars

\* ------------------------------------------------------------ provisioning

\* The table does not exist, or it does; no constructor has started.
InitBoot ==
    /\ table = {}
    /\ now = 1
    /\ live = {}
    /\ ttl = 0
    /\ schema \in {"absent", "active"}
    /\ creates = 0
    /\ boot = [p \in Procs |-> [pc |-> "start", withTTL |-> FALSE, failed |-> "none"]]
    /\ writers = [w \in Writers |-> Idle]
    /\ cached = {}

\* The constructor of process p moves on.
Advance(p, step) ==
    /\ boot' = [boot EXCEPT ![p] = step]
    /\ UNCHANGED <<table, now, live, ttl, writers, cached>>

\* NewDynamoDBRepository (withTTL false) or NewDynamoDBRepositoryWithTTL
\* (true), up to DescribeTable: with config.SkipTableCreation the repository
\* is returned at once; else DescribeTable answers, says the table is not
\* there, or fails otherwise (log.Fatalf).
Describe(p) ==
    /\ boot[p].pc = "start"
    /\ UNCHANGED <<schema, creates>>
    /\ \E withTTL \in BOOLEAN, skip \in BOOLEAN, describeOk \in BOOLEAN :
           Advance(p,
               IF skip THEN [pc |-> "done", withTTL |-> withTTL, failed |-> "none"]
               ELSE IF ~describeOk
                    THEN [pc |-> "fatal", withTTL |-> withTTL, failed |-> "describe"]
               ELSE IF schema = "absent"
                    THEN [pc |-> "create", withTTL |-> withTTL, failed |-> "none"]
               ELSE [pc |-> IF withTTL THEN "ttl" ELSE "done",
                     withTTL |-> withTTL, failed |-> "none"])

\* CreateTable, after DescribeTable said the table is not there: the engine
\* creates it, refuses because the table is there by now
\* (ResourceInUseException), or fails otherwise; an error is log.Fatalf.
CreateTable(p) ==
    /\ boot[p].pc = "create"
    /\ \E createOk \in BOOLEAN :
           IF ~createOk
           THEN /\ Advance(p, [pc |-> "fatal", withTTL |-> boot[p].withTTL,
                                failed |-> "create"])
                /\ UNCHANGED <<schema, creates>>
           ELSE IF schema = "active"
           THEN /\ Advance(p, [pc |-> "fatal", withTTL |-> boot[p].withTTL,
                                failed |-> "exists"])
                /\ UNCHANGED <<schema, creates>>
           ELSE /\ Advance(p, [pc |-> IF boot[p].withTTL THEN "ttl" ELSE "done",
                                withTTL |-> boot[p].withTTL, failed |-> "none"])
                /\ schema' = "active"
                /\ creates' = creates + 1

\* EnableTTL: UpdateTimeToLive, whose error is logged; the constructor
\* returns the repository either way.
EnableTTL(p) ==
    /\ boot[p].pc = "ttl"
    /\ UNCHANGED <<schema, creates>>
    /\ \E updateOk \in BOOLEAN :
           Advance(p, [pc |-> "done", withTTL |-> TRUE,
                       failed |-> IF updateOk THEN "none" ELSE "ttl"])

\* The process of a constructor that ended in log.Fatalf is started again.
Restart(p) ==
    /\ boot[p].pc = "fatal"
    /\ UNCHANGED <<schema, creates>>
    /\ Advance(p, [pc |-> "start", withTTL |-> FALSE, failed |-> "none"])

NextBoot ==
    \E p \in Procs : Describe(p) \/ CreateTable(p) \/ EnableTTL(p) \/ Restart(p)

\* The processes that construct repositories on one table name.
SpecBoot == InitBoot /\ [][NextBoot]_vars

\* ----------------------------------------------------------- entity types

\* An entity of a type with two fields tagged ginboot:"id".
TwoIds(entityId, alias) == [ID |-> entityId, CreatedAt |-> 0, Alias |-> alias]

\* An entity of a type with no field tagged ginboot:"id".
NoId(key) == [CreatedAt |-> 0, Key |-> key]

ShapeIds == {"1", "2"}

ShapeDocs ==
    {TwoIds(i, a) : i \in ShapeIds, a \in ShapeIds} \cup {NoId(k) : k \in ShapeIds}

SaveShape ==
    \E doc \in ShapeDocs, getOk \in BOOLEAN, putOk \in BOOLEAN :
        SaveCall(doc, "A", getOk, putOk)

NextShapes ==
    \/ Tick
    \/ SaveShape

SpecShapes == Init /\ [][NextShapes]_vars

\* ------------------------------------------------------------------ cache

CachePartitionPrefix == "CACHE#"

TagPartitionPrefix == "TAG#"

CacheSortKey == "DATA"

CacheKeys == {"k1"}

Tags == {"t1", "t2"}

TagLists == {<<>>, <<"t1">>, <<"t2">>}

Payloads == {"v", "w"}

\* The duration given to Set, in seconds.
Durations == {1}

\* var entity CacheEntry, with no data.
ZeroCacheEntry ==
    [CreatedAt |-> 0, PK |-> "", SK |-> "", Data |-> Nil, TTL |-> 0, Tags |-> <<>>]

\* var entity TagEntry.
ZeroTagEntry ==
    [ID |-> "", CreatedAt |-> 0, PK |-> "", SK |-> "", TTL |-> 0, Tag |-> "", CacheKey |-> ""]

\* json.Unmarshal into a zero CacheEntry.
UnmarshalCacheEntry(data) ==
    [CreatedAt |-> Member(data, "CreatedAt", 0),
     PK        |-> Member(data, "PK", ""),
     SK        |-> Member(data, "SK", ""),
     Data      |-> Unbase64(Member(data, "Data", Base64(Nil))),
     TTL       |-> Member(data, "TTL", 0),
     Tags      |-> Member(data, "Tags", <<>>)]

\* json.Unmarshal into a zero TagEntry.
UnmarshalTagEntry(data) ==
    [ID        |-> Member(data, "ID", ""),
     CreatedAt |-> Member(data, "CreatedAt", 0),
     PK        |-> Member(data, "PK", ""),
     SK        |-> Member(data, "SK", ""),
     TTL       |-> Member(data, "TTL", 0),
     Tag       |-> "",
     CacheKey  |-> ""]

\* An entry that never expires.
NeverExpired(entry, clock) == FALSE

\* CacheEntry.IsExpired at second clock.
IsExpired(entry, clock) == clock > entry.TTL

\* The engine refuses an item whose key attribute is the empty string.
ValidKey(item) == item.PK # "" /\ item.SK # ""

\* Save(doc, partitionKey) of a repository with no ttl, at second clock: the
\* error returned and the table left.
SaveOf(t, doc, partitionKey, getOk, putOk, clock) ==
    IF getGinbootId(doc).err # Nil THEN [err |-> getGinbootId(doc).err, table |-> t]
    ELSE LET item == NewItem(t, doc, partitionKey, getOk, clock * MillisPerSecond, 0)
         IN  IF ~putOk THEN [err |-> ErrEngine, table |-> t]
             ELSE IF ~ValidKey(item) THEN [err |-> ErrValidation, table |-> t]
             ELSE [err |-> Nil, table |-> PutItem(t, item)]

\* The entry Set builds for the key.
CacheEntryOf(key, data, tags, duration, clock) ==
    [CreatedAt |-> clock, PK |-> CachePartitionPrefix \o key, SK |-> CacheSortKey,
     Data |-> data, TTL |-> clock + duration, Tags |-> tags]

\* The entry Set builds for a tag of the key.
TagEntryOf(key, tag, duration, clock) ==
    [ID |-> "", CreatedAt |-> clock, PK |-> TagPartitionPrefix \o tag,
     SK |-> "CacheEntry#" \o key, TTL |-> clock + duration, Tag |-> "", CacheKey |-> ""]

RECURSIVE SaveTags(_, _, _, _, _, _, _)
\* The loop of Set over the tags, from tag i on: the first error is returned.
SaveTags(t, key, tags, i, duration, putOk, clock) ==
    IF i > Len(tags) THEN [err |-> Nil, table |-> t]
    ELSE LET r == SaveOf(t, TagEntryOf(key, tags[i], duration, clock), tags[i], TRUE, putOk,
                         clock)
         IN  IF r.err # Nil THEN r
             ELSE SaveTags(r.table, key, tags, i + 1, duration, putOk, clock)

\* Set(key, data, tags, duration) at second clock: the error returned and the
\* table left.
SetCall(t, key, data, tags, duration, getOk, putOk, clock) ==
    LET r == SaveOf(t, CacheEntryOf(key, data, tags, duration, clock), key, getOk, putOk,
                    clock)
    IN  IF r.err # Nil THEN r
        ELSE SaveTags(r.table, key, tags, 1, duration, putOk, clock)

\* What was Set for other keys.
Uncached(c, key) == {x \in c : x[1] # key}

Set ==
    \E key \in CacheKeys, data \in Payloads, tags \in TagLists, duration \in Durations,
       putOk \in BOOLEAN :
        \E r \in {SetCall(table, key, data, tags, duration, TRUE, putOk, now)} :
            /\ \A it \in r.table : it.Version <= MaxVersion
            /\ table' = r.table
            /\ cached' = IF r.err = Nil
                         THEN Uncached(cached, key)
                              \cup {<<key, data, Range(tags), now + duration>>}
                         ELSE IF r.table # table THEN Uncached(cached, key)
                         ELSE cached
            /\ UNCHANGED <<now, live, ttl, schema, creates, boot, writers>>

\* Get(key) at second clock: FindById(CacheSortKey, key) of the repository of
\* CacheEntry; any error of it, and an expired entry, is a miss.
Get(t, key, getOk, clock) ==
    LET r     == findById(t, CompositePK(ZeroCacheEntry, key), CacheSortKey, getOk)
        item  == CHOOSE it \in r.item : TRUE
        entry == UnmarshalCacheEntry(item.Data)
    IN  IF r.err # Nil \/ item.Data = <<>> THEN [data |-> Nil, err |-> Nil]
        ELSE IF IsExpired(entry, clock) THEN [data |-> Nil, err |-> Nil]
        ELSE [data |-> entry.Data, err |-> Nil]

\* The items of an entry as Get and Invalidate read them: the entry under
\* (CacheEntry#key, DATA), one tag entry per tag under (TagEntry#tag, key).
EntryItem(key, data, expiry) ==
    [ID |-> CacheSortKey, CreatedAt |-> 0,
     PK |-> CompositePK(ZeroCacheEntry, key), SK |-> CacheSortKey,
     Data |-> Marshal([CreatedAt |-> 0, PK |-> CachePartitionPrefix \o key,
                       SK |-> CacheSortKey, Data |-> data, TTL |-> expiry, Tags |-> <<>>]),
     Version |-> 0, TTL |-> 0]

TagItem(key, tag) ==
    [ID |-> key, CreatedAt |-> 0,
     PK |-> CompositePK(ZeroTagEntry, tag), SK |-> key,
     Data |-> Marshal([ID |-> "", CreatedAt |-> 0, PK |-> TagPartitionPrefix \o tag,
                       SK |-> key, TTL |-> 0, Tag |-> "", CacheKey |-> ""]),
     Version |-> 0, TTL |-> 0]

\* Another client of the table writes an entry of that layout, with an expiry
\* a second ahead or a second ago.
PutEntry ==
    \E key \in CacheKeys, data \in Payloads, tags \in TagLists, expiry \in {now - 1, now + 1} :
        /\ table' = {it \in table :
                        /\ ~(it.PK = CompositePK(ZeroCacheEntry, key) /\ it.SK = CacheSortKey)
                        /\ \A tag \in Range(tags) :
                               ~(it.PK = CompositePK(ZeroTagEntry, tag) /\ it.SK = key)}
                     \cup {EntryItem(key, data, expiry)}
                     \cup {TagItem(key, tag) : tag \in Range(tags)}
        /\ cached' = Uncached(cached, key)
        /\ UNCHANGED <<now, live, ttl, schema, creates, boot, writers>>

\* The delete requests DeleteAll of the repository of TagEntry builds.
TagDeleteRequests(ids, tag) ==
    [i \in 1..Len(ids) |->
        [partitionKey |-> tag,
         PK |-> CompositePK(ZeroTagEntry, tag), SK |-> ids[i], kind |-> "delete"]]

\* The body of Invalidate's loop for one tag, on the tag entries FindAll
\* returned: Delete(CacheSortKey, te.SK) of each, then DeleteAll of the tag
\* entries; no error of either is looked at.
InvalidateTag(t, tag, items, deleteOk, failAt) ==
    LET tagIds == [i \in DOMAIN items |-> UnmarshalTagEntry(items[i].Data).SK]
        t1 == IF deleteOk
              THEN {it \in t : ~(/\ it.SK = CacheSortKey
                                 /\ \E i \in DOMAIN tagIds :
                                        it.PK = CompositePK(ZeroCacheEntry, tagIds[i]))}
              ELSE t
    IN  IF Len(tagIds) = 0 THEN t1
        ELSE RunChunks([table |-> t1, live |-> {}], TagDeleteRequests(tagIds, tag), 1,
                       failAt, {}).table

RECURSIVE InvalidateFrom(_, _, _, _, _, _)
\* The loop of Invalidate over the tags, from tag i on: the tables it may
\* leave.  A tag whose FindAll fails is passed over.
InvalidateFrom(t, tags, i, queryOk, deleteOk, failAt) ==
    IF i > Len(tags) THEN {t}
    ELSE UNION {IF r.err # Nil
                THEN InvalidateFrom(t, tags, i + 1, queryOk, deleteOk, failAt)
                ELSE InvalidateFrom(InvalidateTag(t, tags[i], r.items, deleteOk, failAt),
                                    tags, i + 1, queryOk, deleteOk, failAt)
                  : r \in IF ~queryOk THEN {[err |-> ErrEngine, items |-> <<>>]}
                          ELSE {[err |-> Nil, items |-> items]
                                  : items \in QueryIndex(t, CompositePK(ZeroTagEntry, tags[i]))}}

\* Invalidate(tags...): returns nil.
InvalidateCall(tags, queryOk, deleteOk, failAt) ==
    /\ table' \in InvalidateFrom(table, tags, 1, queryOk, deleteOk, failAt)
    /\ cached' = {}
    /\ UNCHANGED <<now, live, ttl, schema, creates, boot, writers>>

Invalidate ==
    \E tags \in TagLists \ {<<>>}, queryOk \in BOOLEAN, deleteOk \in BOOLEAN, failAt \in 0..1 :
        InvalidateCall(tags, queryOk, deleteOk, failAt)

NextCache ==
    \/ Tick
    \/ Set
    \/ PutEntry
    \/ Invalidate

SpecCache == Init /\ [][NextCache]_vars

\* ------------------------------------------------------ concurrent writers

\* The key the writers save to.
RacePartition == "A"

RaceId == "1"

\* A PutItem on the condition that the stored version is still the one read.
ConditionalPut(t, item, putOk) ==
    IF ~putOk THEN [err |-> ErrEngine, table |-> t]
    ELSE IF \E it \in GetItem(t, item.PK, item.SK) : NextVersion(it.Version) # item.Version
         THEN [err |-> "conditional check failed", table |-> t]
    ELSE [err |-> Nil, table |-> PutItem(t, item)]

\* The PutItem of Save: no condition; the engine's error is returned.
PutOutcome(t, item, putOk) ==
    IF ~putOk THEN [err |-> ErrEngine, table |-> t]
    ELSE [err |-> Nil, table |-> PutItem(t, item)]

\* Writer w enters Save(doc, partitionKey): it takes the time, reads the item
\* of the key and builds the envelope from what it read.
ReadStep(w) ==
    \E body \in Bodies, getOk \in BOOLEAN :
        \E newItem \in {NewItem(table, Entity(RaceId, body), RacePartition, getOk, now, ttl)} :
            /\ writers[w].pc = "idle"
            /\ newItem.Version <= MaxVersion
            /\ writers' = [writers EXCEPT
                              ![w] = [doc |-> Entity(RaceId, body), item |-> newItem,
                                      pc |-> "put"]]
            /\ UNCHANGED <<table, now, live, ttl, schema, creates, boot, cached>>

\* Writer w sends its PutItem and Save returns the engine's answer.
PutStep(w, putOk) ==
    \E r \in {PutOutcome(table, writers[w].item, putOk)} :
        /\ writers[w].pc = "put"
        /\ table' = r.table
        /\ live' = IF r.err = Nil THEN Commit(live, RacePartition, writers[w].doc) ELSE live
        /\ writers' = [writers EXCEPT ![w].pc = IF r.err = Nil THEN "done" ELSE "failed"]
        /\ UNCHANGED <<now, ttl, schema, creates, boot, cached>>

\* The caller of writer w has its answer.
ReturnStep(w) ==
    /\ writers[w].pc \in {"done", "failed"}
    /\ writers' = [writers EXCEPT ![w] = Idle]
    /\ UNCHANGED <<table, now, live, ttl, schema, creates, boot, cached>>

NextRace ==
    \/ Tick
    \/ \E w \in Writers : ReadStep(w)
    \/ \E w \in Writers, putOk \in BOOLEAN : PutStep(w, putOk)
    \/ \E w \in Writers : ReturnStep(w)

SpecRace == Init /\ [][NextRace]_vars

\* ----------------------------------------------------------- time to live

\* The duration given to NewDynamoDBRepositoryWithTTL, in milliseconds.
TTLMillis == 1000

\* The keys the callers of a repository with a ttl write.
TTLKeys == {<<"A", "1">>, <<"A", "2">>}

\* NewDynamoDBRepository leaves ttl 0, NewDynamoDBRepositoryWithTTL sets it.
InitTTL ==
    /\ table = {}
    /\ now = 1
    /\ live = {}
    /\ ttl \in {0, TTLMillis}
    /\ Provisioned

\* A second passes.
TickSecond ==
    /\ now < MaxTime * MillisPerSecond
    /\ now' = now + MillisPerSecond
    /\ UNCHANGED <<table, live, ttl, outside>>

\* The item carries a ttl attribute whose second is past.
Expired(item, clock) == item.TTL # 0 /\ item.TTL < clock \div MillisPerSecond

\* The engine, on which EnableTTL turned expiry on for the attribute ttl,
\* removes an expired item, at a time of its choosing.
Expire ==
    \E it \in table :
        /\ Expired(it, now)
        /\ table' = table \ {it}
        /\ live' = {x \in live : ~(CompositePK(x[2], x[1]) = it.PK /\ x[2].ID = it.SK)}
        /\ UNCHANGED <<now, ttl, outside>>

NextTTL ==
    \/ TickSecond
    \/ Save(TTLKeys, Bodies)
    \/ SaveAll(TTLKeys, Bodies)
    \/ Delete(TTLKeys)
    \/ Expire

\* The callers of a repository built with or without a ttl.
SpecTTL == InitTTL /\ [][NextTTL]_vars

\* -------------------------------------------------------------- properties

\* The entities committed under a partition key and not deleted since.
LiveDocs(partitionKey) == {x[2] : x \in {y \in live : y[1] = partitionKey}}

\* The item stored for (partitionKey, id), if any.
Stored(t, partitionKey, id) == GetItem(t, CompositePK(ZeroEntity, partitionKey), id)

\* The version stored for (partitionKey, id): 0 when there is no item.
StoredVersion(t, partitionKey, id) ==
    IF Stored(t, partitionKey, id) = {} THEN 0
    ELSE (CHOOSE it \in Stored(t, partitionKey, id) : TRUE).Version

\* The envelope createdAt stored for (partitionKey, id): 0 when there is no item.
StoredCreatedAt(t, partitionKey, id) ==
    IF Stored(t, partitionKey, id) = {} THEN 0
    ELSE (CHOOSE it \in Stored(t, partitionKey, id) : TRUE).CreatedAt

\* The arguments the reads are asked with.
FieldValues ==
    { <<"ID", StringValue("1")>>, <<"Name", StringValue("x")>>,
      <<"Name", StringValue("z")>>, <<"Value", IntValue(10)>>,
      <<"Value", Int64Value(10)>>, <<"CreatedAt", Int64Value(2)>> }

FilterMaps ==
    { {},
      {<<"Name", StringValue("x")>>},
      {<<"Name", StringValue("y")>>, <<"Value", IntValue(10)>>},
      {<<"Name", StringValue("x")>>, <<"Value", IntValue(10)>>},
      {<<"CreatedAt", OperatorMap({<<"$gte", 2>>})>>},
      {<<"CreatedAt", OperatorMap({<<"$gte", 0>>, <<"$lt", 2>>})>>} }

PageSizes == {-1, 1, 2, 3}

PageRequests == {PageRequest(page, size) : page \in 1..3, size \in PageSizes}

\* C1: Round-trip.  Once Save(E, p) (or SaveAll of E under p) has returned
\* without error, and until the key is written or deleted again,
\* FindById(id(E), p) returns E without error.
RoundTrip ==
    \A x \in live :
        FindById(table, x[2].ID, x[1], TRUE) = [err |-> Nil, result |-> x[2]]

\* An entity saved over an earlier item of its key, and read back.
RoundTripWitness ==
    \E x \in live :
        /\ StoredVersion(table, x[1], x[2].ID) = 2
        /\ x[2].Name = "y"
        /\ FindById(table, x[2].ID, x[1], TRUE) = [err |-> Nil, result |-> x[2]]

\* C2: Version monotonicity.  A successful Save leaves the version of its
\* key one above the version stored before it (1 on a key that holds no
\* item), and no step that leaves an item under a key lowers its version.
VersionMonotonic ==
    [][/\ \A k \in CrudKeys, body \in Bodies, getOk \in BOOLEAN :
             SaveCall(Entity(k[2], body), k[1], getOk, TRUE)
                 => StoredVersion(table', k[1], k[2]) = StoredVersion(table, k[1], k[2]) + 1
       /\ \A k \in CrudKeys :
             Stored(table', k[1], k[2]) # {}
                 => StoredVersion(table', k[1], k[2]) >= StoredVersion(table, k[1], k[2])]_vars

\* C3: The envelope's createdAt of a key is the same after every later write
\* to the key, whatever CreatedAt the entity carries.
CreatedAtImmutable ==
    [][\A k \in CrudKeys :
          (Stored(table, k[1], k[2]) # {} /\ Stored(table', k[1], k[2]) # {})
              => StoredCreatedAt(table', k[1], k[2]) = StoredCreatedAt(table, k[1], k[2])]_vars

\* The entities the reads of a partition return when the engine answers.
ReturnedBy(partitionKey) ==
    {FindById(table, id, partitionKey, TRUE).result :
         id \in {i \in Ids : FindById(table, i, partitionKey, TRUE).err = Nil}}
    \cup UNION {Range(r.results) : r \in FindAll(table, partitionKey, TRUE)}
    \cup UNION {Range(r.results) :
                    r \in UNION {FindBy(table, fv[1], fv[2], partitionKey, TRUE) : fv \in FieldValues}}
    \cup UNION {Range(r.results) :
                    r \in UNION {FindByFilters(table, f, partitionKey, TRUE) : f \in FilterMaps}}
    \cup UNION {Range(FindAllPaginated(table, q, partitionKey, TRUE).page.Contents) :
                    q \in PageRequests}
    \cup UNION {Range(FindByPaginated(table, q, f, partitionKey, TRUE).page.Contents) :
                    q \in PageRequests, f \in FilterMaps}

\* C4: Partition isolation.  An entity that stands saved under partition B
\* and not under partition A is returned by no read of A: FindById, FindAll,
\* FindBy, FindByFilters, FindAllPaginated, FindByPaginated.
PartitionIsolation ==
    \A a \in Partitions :
        \A b \in Partitions \ {a} :
            \A e \in LiveDocs(b) \ LiveDocs(a) : e \notin ReturnedBy(a)

\* One id holds different entities under the two partitions, and each read by
\* id returns the entity of its own partition.
PartitionIsolationWitness ==
    \E e \in LiveDocs("B") \ LiveDocs("A") :
        \E d \in LiveDocs("A") :
            /\ d.ID = e.ID
            /\ FindById(table, e.ID, "A", TRUE).result = d
            /\ FindById(table, e.ID, "B", TRUE).result = e

\* C5: Not-found.  FindById on a key that holds no item returns "item not
\* found"; FindOneBy and FindOneByFilters with no matching item in the
\* partition do the same; and none of them returns the zero entity with a
\* nil error.
NotFound ==
    \A p \in Partitions :
        /\ \A id \in Ids :
              /\ (\A d \in LiveDocs(p) : d.ID # id)
                     => FindById(table, id, p, TRUE).err = ErrNotFound
              /\ \A getOk \in BOOLEAN :
                     ~(FindById(table, id, p, getOk) = [err |-> Nil, result |-> ZeroEntity])
        /\ \A fv \in FieldValues :
              /\ (\A d \in LiveDocs(p) : FieldValue(d, fv[1]) # fv[2])
                     => FindOneBy(table, fv[1], fv[2], p, TRUE).err = ErrNotFound
              /\ \A queryOk \in BOOLEAN :
                     ~(FindOneBy(table, fv[1], fv[2], p, queryOk)
                           = [err |-> Nil, result |-> ZeroEntity])
        /\ \A f \in FilterMaps :
              /\ (\A d \in LiveDocs(p) : \E c \in f : FieldValue(d, c[1]) # c[2])
                     => FindOneByFilters(table, f, p, TRUE).err = ErrNotFound
              /\ \A queryOk \in BOOLEAN :
                     ~(FindOneByFilters(table, f, p, queryOk)
                           = [err |-> Nil, result |-> ZeroEntity])

\* A partition that holds an item, read at an id that only the other
\* partition holds and for a field value none of its items has: both reads
\* answer "item not found".
NotFoundWitness ==
    /\ LiveDocs("A") # {}
    /\ \A d \in LiveDocs("A") : d.ID # "1" /\ d.Name # "x"
    /\ \E it \in table : it.SK = "1" /\ it.PK = CompositePK(ZeroEntity, "B")
    /\ FindById(table, "1", "A", TRUE) = [err |-> ErrNotFound, result |-> ZeroEntity]
    /\ FindOneBy(table, "Name", StringValue("x"), "A", TRUE).err = ErrNotFound

\* The listings of the entities docs of a partition by envelope createdAt,
\* newest first.
NewestFirst(docs, partitionKey) ==
    {s \in Listings(docs) :
        \A i, j \in DOMAIN s :
            i < j => StoredCreatedAt(table, partitionKey, s[i].ID)
                         >= StoredCreatedAt(table, partitionKey, s[j].ID)}

\* The filters that compare fields with values, with no operator.
EqualityFilters ==
    {f \in FilterMaps : \A c \in f : c[2].type # OperatorMap({}).type}

\* The entities of a partition that match the filters.
Matching(partitionKey, filters) ==
    {d \in LiveDocs(partitionKey) : MatchFilters(d, filters)}

\* Block number page of the blocks of size elements of s.
Block(s, page, size) ==
    IF (page - 1) * size >= Len(s) THEN <<>>
    ELSE SubSeq(s, (page - 1) * size + 1, Min(page * size, Len(s)))

\* ceil(a / b), b > 0.
CeilDiv(a, b) == IF a % b = 0 THEN a \div b ELSE a \div b + 1

\* The page requests of size > 0 and page >= 1.
SizedPageRequests == {q \in PageRequests : q.Size > 0}

\* C6: FindAll(p) returns every entity stored in partition p exactly once,
\* in the order of envelope createdAt, newest first.
FindAllComplete ==
    \A p \in Partitions :
        \A r \in FindAll(table, p, TRUE) :
            r.err = Nil /\ r.results \in NewestFirst(LiveDocs(p), p)

\* C7: for each page size, the pages of FindAllPaginated are the blocks of one
\* newest-first listing of the partition, and the pages of FindByPaginated
\* under equality filters the blocks of one newest-first listing of the
\* matching entities.
PagesNewestFirst ==
    \A p \in Partitions :
        \A size \in {n \in PageSizes : n > 0} :
            /\ \E s \in NewestFirst(LiveDocs(p), p) :
                  \A page \in 1..3 :
                      FindAllPaginated(table, PageRequest(page, size), p, TRUE).page.Contents
                          = Block(s, page, size)
            /\ \A f \in EqualityFilters :
                  \E s \in NewestFirst(Matching(p, f), p) :
                      \A page \in 1..3 :
                          FindByPaginated(table, PageRequest(page, size), f, p, TRUE).page.Contents
                              = Block(s, page, size)

\* C8: for size > 0 and page >= 1, FindAllPaginated and FindByPaginated report
\* totalElements = the number of entities of the partition (that match the
\* equality filters) and totalPages = ceil(totalElements / size).
PaginationMath ==
    \A p \in Partitions, q \in SizedPageRequests :
        /\ FindAllPaginated(table, q, p, TRUE).page.TotalElements = Cardinality(LiveDocs(p))
        /\ FindAllPaginated(table, q, p, TRUE).page.TotalPages
               = CeilDiv(Cardinality(LiveDocs(p)), q.Size)
        /\ \A f \in EqualityFilters :
              /\ FindByPaginated(table, q, f, p, TRUE).page.TotalElements
                     = Cardinality(Matching(p, f))
              /\ FindByPaginated(table, q, f, p, TRUE).page.TotalPages
                     = CeilDiv(Cardinality(Matching(p, f)), q.Size)

\* C9: a page request of size -1, whatever its page number, yields one page:
\* totalPages = 1, contents = all entities of the partition (that match the
\* equality filters), each once, and numberOfElements = totalElements.
SinglePage ==
    \A p \in Partitions, page \in 1..3 :
        /\ LET r == FindAllPaginated(table, PageRequest(page, -1), p, TRUE).page
           IN  /\ r.TotalPages = 1
               /\ r.Contents \in Listings(LiveDocs(p))
               /\ r.NumberOfElements = r.TotalElements
        /\ \A f \in EqualityFilters :
              LET r == FindByPaginated(table, PageRequest(page, -1), f, p, TRUE).page
              IN  /\ r.TotalPages = 1
                  /\ r.Contents \in Listings(Matching(p, f))
                  /\ r.NumberOfElements = r.TotalElements

\* C10: for size > 0 and page >= 1, the page holds the elements at indexes
\* [(page-1)*size, page*size) of one full listing of the entities of the
\* partition (that match the equality filters),
\* clamped to its length, with totalElements and totalPages those of the full
\* listing; a page beyond the last is empty, and no page is an error.
PageSlice ==
    \A p \in Partitions :
        \A size \in {n \in PageSizes : n > 0} :
            /\ \E s \in Listings(LiveDocs(p)) :
                  \A page \in 1..3 :
                      LET r == FindAllPaginated(table, PageRequest(page, size), p, TRUE)
                      IN  /\ r.err = Nil
                          /\ r.page.Contents = Block(s, page, size)
                          /\ r.page.NumberOfElements = Len(Block(s, page, size))
                          /\ r.page.TotalElements = Len(s)
                          /\ r.page.TotalPages = CeilDiv(Len(s), size)
            /\ \A f \in EqualityFilters :
                  \E s \in Listings(Matching(p, f)) :
                      \A page \in 1..3 :
                          LET r == FindByPaginated(table, PageRequest(page, size), f, p, TRUE)
                          IN  /\ r.err = Nil
                              /\ r.page.Contents = Block(s, page, size)
                              /\ r.page.NumberOfElements = Len(Block(s, page, size))
                              /\ r.page.TotalElements = Len(s)
                              /\ r.page.TotalPages = CeilDiv(Len(s), size)

\* The lists of distinct ids a caller asks FindAllById for.
IdRequests == {ids \in UNION {[1..n -> Ids] : n \in 0..3} :
                  \A i, j \in DOMAIN ids : i # j => ids[i] # ids[j]}

\* C11: FindAllById(ids, p) returns the stored entities of the listed ids,
\* each once, in the order of their creation time (the envelope's createdAt),
\* newest first, whatever the order of ids and of the engine's response.
FindAllByIdNewestFirst ==
    \A p \in Partitions, ids \in IdRequests :
        \A r \in FindAllById(table, ids, p, TRUE) :
            /\ r.err = Nil
            /\ r.results \in NewestFirst({d \in LiveDocs(p) : d.ID \in Range(ids)}, p)


\* C12: SaveAll(entities, p) sends batch-write requests of at most 25 items
\* each, and after it returns nil every entity of the list is retrievable by
\* FindById.
SaveAllStoresAll ==
    [][\A n \in BatchLengths, body \in BatchBodies :
          \A unprocessed \in BatchHoles(n, 0) :
              SaveAllCall(LargeDocs(n, body), BatchPartition, {}, 0, unprocessed)
              => /\ \A k \in 1..NumChunks(n) :
                        Len(Chunk(LargeDocs(n, body), k)) <= 25
                 /\ \A i \in 1..n :
                        FindById(table', LargeId(i), BatchPartition, TRUE)
                        = [err |-> Nil, result |-> Entity(LargeId(i), body)]]_vars

\* The chunk the i-th request of a list is sent in.
ChunkOf(i) == ((i - 1) \div 25) + 1

\* The table after the calls of a list of requests of distinct keys that the
\* engine carried out: the items of the keys they name are replaced by what
\* the puts hold, the other items stay.
AfterRequests(t, requests, carried) ==
    {it \in t : \A i \in carried : ~(it.PK = requests[i].PK /\ it.SK = requests[i].SK)}
    \cup {requests[i].item : i \in {j \in carried : requests[j].kind = "put"}}

\* C13: SaveAll and DeleteAll send their chunks one after the other; when
\* chunk k fails the call returns that error, what the engine carried out of
\* chunks 1..k-1 stays in the table, and no request of chunk k or of a later
\* chunk is applied.
ChunksSequential ==
    \A n \in BatchLengths, body \in BatchBodies :
        \A failAt \in 1..NumChunks(n) :
            \A unprocessed \in BatchHoles(n, failAt) :
                \A requests \in {PutRequests(table, LargeDocs(n, body), BatchPartition,
                                              {}, now, ttl),
                                  DeleteRequests(LargeIds(n), BatchPartition)} :
                    LET r == RunChunks([table |-> table, live |-> live], requests, 1,
                                       failAt, unprocessed)
                    IN  /\ r.err = ErrEngine
                        /\ r.table = AfterRequests(table, requests,
                                         {i \in 1..n : ChunkOf(i) < failAt} \ unprocessed)

\* The third chunk of a SaveAll of 55 entities failed: the first 50 are
\* stored, the last 5 are not.
ChunksSequentialWitness ==
    {it.SK : it \in table} = {LargeId(i) : i \in 1..50}


\* C14: when a partition holds more items than one query response carries,
\* FindAll and FindAllPaginated follow the continuation cursor to its end:
\* FindAll returns every entity of the partition and totalElements counts
\* every one of them.
CursorExhausted ==
    \A p \in Partitions :
        Cardinality(LiveDocs(p)) > ResponseLimit
        => /\ \A r \in FindAll(table, p, TRUE) :
                  r.err = Nil /\ Range(r.results) = LiveDocs(p)
           /\ \A q \in PageRequests :
                  LET r == FindAllPaginated(table, q, p, TRUE)
                  IN  r.err = Nil /\ r.page.TotalElements = Cardinality(LiveDocs(p))


\* C15: a stored item whose ttl attribute is present and in the past is
\* absent for the readers, while the engine still holds it: FindById answers
\* "item not found" and FindAll leaves it out.
ExpiredIsAbsent ==
    \A p \in Partitions :
        \A it \in PartitionItems(table, CompositePK(ZeroEntity, p)) :
            Expired(it, now)
            => /\ FindById(table, it.SK, p, TRUE).err = ErrNotFound
               /\ \A r \in FindAll(table, p, TRUE) :
                      \A i \in DOMAIN r.results : r.results[i].ID # it.SK

\* C16: every item a step writes carries the second at which it expires, the
\* time of the write plus the repository's ttl, when the repository has a
\* ttl, and no ttl attribute (0) when it has none; a second write of a key
\* stamps it anew.
TTLStamped ==
    [][\A it \in table' \ table :
          it.TTL = IF ttl > 0 THEN (now + ttl) \div MillisPerSecond ELSE 0]_vars

\* An item written a second time, a second or more after its creation,
\* expires later than its first write made it.
TTLStampedWitness ==
    /\ ttl > 0
    /\ \E it \in table :
           it.Version >= 2 /\ (it.CreatedAt + ttl) \div MillisPerSecond < it.TTL


\* The entity's field has the value a filter entry asks for: the value itself,
\* or one within the bounds of an operator object.
Satisfies(entity, entry) ==
    IF entry[2].type = OperatorMap({}).type
    THEN \A o \in entry[2].val :
             /\ o[1] \in {"$gte", "$lt"}
             /\ o[1] = "$gte" => entity[entry[1]] >= o[2]
             /\ o[1] = "$lt" => entity[entry[1]] < o[2]
    ELSE entity[entry[1]] = entry[2].val

\* C17: FindByFilters(filters, p) returns exactly the entities of partition p
\* that satisfy every entry of the filter map, and an empty result is a
\* success.
FilterConjunction ==
    \A p \in Partitions, f \in FilterMaps :
        \A r \in FindByFilters(table, f, p, TRUE) :
            /\ r.err = Nil
            /\ Range(r.results) = {d \in LiveDocs(p) : \A c \in f : Satisfies(d, c)}

\* The operator objects asked on the field CreatedAt: $gte, $lt, and both,
\* with bounds at, between and above the values the field takes.
OperatorObjects ==
    {{<<"$gte", a>>} : a \in 0..3} \cup {{<<"$lt", b>>} : b \in 0..3}
    \cup {{<<"$gte", c[1]>>, <<"$lt", c[2]>>} : c \in {d \in (0..3) \X (0..3) : d[1] <= d[2]}}

\* The entities of a response whose CreatedAt lies at or above every $gte
\* bound and strictly below every $lt bound.
WithinBounds(items, ops) ==
    SelectSeq(Decode(items),
              LAMBDA e : /\ \A o \in {x \in ops : x[1] = "$gte"} : o[2] <= e.CreatedAt
                         /\ \A o \in {x \in ops : x[1] = "$lt"} : e.CreatedAt < o[2])

CountAgreesWithFind ==
    \A p \in Partitions :
        /\ \A q \in FieldValues :
               /\ \A r \in FindBy(table, q[1], q[2], p, TRUE) :
                      CountBy(table, q[1], q[2], p, TRUE)
                      = [err |-> Nil, count |-> Len(r.results)]
               /\ ExistsBy(table, q[1], q[2], p, TRUE).exists
                  <=> CountBy(table, q[1], q[2], p, TRUE).count > 0
        /\ \A f \in FilterMaps :
               /\ \A r \in FindByFilters(table, f, p, TRUE) :
                      CountByFilters(table, f, p, TRUE)
                      = [err |-> Nil, count |-> Len(r.results)]
               /\ ExistsByFilters(table, f, p, TRUE).exists
                  <=> CountByFilters(table, f, p, TRUE).count > 0


\* The items of the table but those of partition p whose id is in ids.
Unlisted(t, p, ids) ==
    {it \in t : ~(it.PK = CompositePK(ZeroEntity, p) /\ it.SK \in ids)}

\* The table holds exactly the items left, FindAll(p) returns exactly their
\* entities of partition p, and FindById of each id of ids is "item not
\* found".
Removed(t, left, p, ids) ==
    /\ t = left
    /\ \A r \in FindAll(t, p, TRUE) :
           /\ r.err = Nil
           /\ Range(r.results)
              = {Unmarshal(it.Data) : it \in PartitionItems(left, CompositePK(ZeroEntity, p))}
    /\ \A id \in ids : FindById(t, id, p, TRUE).err = ErrNotFound

\* C20: a Delete(id, p) or DeleteAll(ids, p) that returns nil removes exactly
\* the items of partition p whose id is listed and leaves every other item as
\* it was; afterwards FindAll(p) returns the unlisted entities and FindById of
\* a listed id is "item not found".
DeleteFrame ==
    [][\A p \in Partitions :
          /\ \A id \in Ids :
                 DeleteCall(id, p, TRUE) => Removed(table', Unlisted(table, p, {id}), p, {id})
          /\ \A ids \in IdLists(CrudKeys, p) :
                 \A unprocessed \in SUBSET (1..Len(ids)) :
                     (/\ ~HasDuplicateKeys(DeleteRequests(ids, p))
                      /\ DeleteAllCall(ids, p, 0, unprocessed))
                     => Removed(table', Unlisted(table, p, Range(ids)), p, Range(ids))]_vars


\* C21: an engine error of any request of an operation is returned to the
\* caller: a Save whose read before the write fails returns that error, and
\* writes nothing.
EngineErrorsPropagate ==
    [][\A k \in CrudKeys, body \in Bodies, putOk \in BOOLEAN :
          SaveCall(Entity(k[2], body), k[1], FALSE, putOk)
          => /\ SaveError(Entity(k[2], body), k[1], FALSE, putOk) = ErrEngine
             /\ table' = table]_vars


\* C22: a constructor returns a repository only if none of its provisioning
\* requests failed: a failure of DescribeTable (other than the table not
\* being there), of CreateTable or of enabling the ttl attribute ends the
\* process.
ProvisioningFatal ==
    \A p \in Procs : boot[p].pc = "done" => boot[p].failed = "none"

\* C23: over any interleaving of constructors on one table name the table is
\* created at most once and no constructor fails because the table exists.
ProvisioningIdempotent ==
    /\ creates <= 1
    /\ \A p \in Procs : boot[p].failed # "exists"

\* C24: an entity type must have exactly one field tagged ginboot:"id": Save
\* of an entity of a type with none, or with more than one, fails with the
\* error of the identifier lookup and writes nothing.
IdTagRequired ==
    [][\A doc \in ShapeDocs, getOk \in BOOLEAN, putOk \in BOOLEAN :
          (Len(IdFields(doc)) # 1 /\ SaveCall(doc, "A", getOk, putOk))
          => /\ getGinbootId(doc).err # Nil
             /\ table' = table]_vars

\* C25: after Set(key, data, tags, duration) returned nil, and until the
\* duration has elapsed or another write to the key or an Invalidate came,
\* Get(key) returns data.
CacheRoundTrip ==
    \A c \in cached : now < c[4] => Get(table, c[1], TRUE, now).data = c[2]

\* C26: after Invalidate(tags...) Get is a miss for every key Set with one of
\* the tags and still returns the data of the keys Set with other tags only.
TagInvalidation ==
    [][\A tags \in TagLists \ {<<>>}, queryOk \in BOOLEAN, deleteOk \in BOOLEAN,
         failAt \in 0..1 :
          InvalidateCall(tags, queryOk, deleteOk, failAt)
          => \A c \in cached :
                 now < c[4]
                 => Get(table', c[1], TRUE, now).data
                    = IF c[3] \cap Range(tags) # {} THEN Nil ELSE c[2]]_vars

\* The entries stored under the key Get reads.
EntriesAt(t, key) ==
    {UnmarshalCacheEntry(it.Data) : it \in GetItem(t, CompositePK(ZeroCacheEntry, key),
                                                   CacheSortKey)}

\* C27: Get(key) is a miss, with no data and no error, when the table holds
\* no entry for the key and when the entry it holds has a TTL in the past.
CacheExpiry ==
    \A key \in CacheKeys, getOk \in BOOLEAN :
        (\A entry \in EntriesAt(table, key) : entry.TTL < now)
        => Get(table, key, getOk, now) = [data |-> Nil, err |-> Nil]

\* An entry with a TTL in the past is in the table and Get misses it.
CacheExpiryWitness ==
    \E key \in CacheKeys :
        /\ \E entry \in EntriesAt(table, key) : entry.TTL < now /\ entry.Data # Nil
        /\ Get(table, key, TRUE, now).data = Nil

\* C28: Save writes with no condition on what it read: a PutItem the engine
\* carries out stores the writer's envelope and reports no error, whatever
\* another writer committed since the read.  Two writers that both read
\* version N so both commit version N + 1, and the payload stored is that of
\* the later one alone.
LostUpdate ==
    [][\A w \in Writers :
          PutStep(w, TRUE)
          => /\ writers'[w].pc = "done"
             /\ GetItem(table', writers[w].item.PK, writers[w].item.SK) = {writers[w].item}]_vars

\* Both writers read version N >= 1, both committed version N + 1 with no
\* error, and the table holds the payload of one of them only.
LostUpdateWitness ==
    \E w1 \in Writers, w2 \in Writers :
        /\ w1 # w2
        /\ writers[w1].pc = "done" /\ writers[w2].pc = "done"
        /\ writers[w1].item.Version = writers[w2].item.Version
        /\ writers[w1].item.Version >= 2
        /\ writers[w1].doc # writers[w2].doc
        /\ \E it \in Stored(table, RacePartition, RaceId) :
               /\ it.Version = writers[w1].item.Version
               /\ it.Data = Marshal(writers[w1].doc)
               /\ it.Data # Marshal(writers[w2].doc)

\* The lengths of the id lists that take more than one batch-get request.
ReadLengths == {101}

\* C29: FindAllById(ids, p) on a list of more than 100 ids returns no error
\* and every stored item of the ids listed.
FindAllByIdChunked ==
    \A n \in ReadLengths :
        \A r \in FindAllById(table, LargeIds(n), BatchPartition, TRUE) :
            /\ r.err = Nil
            /\ {d.ID : d \in Range(r.results)}
               = {it.SK : it \in {x \in PartitionItems(table, CompositePK(ZeroEntity, BatchPartition)) :
                                    x.SK \in Range(LargeIds(n))}}

\* C30: for every filter map, of direct values or of operator objects,
\* FindByPaginated({1, -1}, filters, p) returns the items FindByFilters(filters,
\* p) returns, and as totalElements their number, which CountByFilters(filters,
\* p) gives too.
PaginatedAgreesWithFind ==
    \A p \in Partitions, f \in FilterMaps :
        \A r \in FindByFilters(table, f, p, TRUE) :
            /\ FindByPaginated(table, PageRequest(1, -1), f, p, TRUE).err = Nil
            /\ Range(FindByPaginated(table, PageRequest(1, -1), f, p, TRUE).page.Contents)
               = Range(r.results)
            /\ FindByPaginated(table, PageRequest(1, -1), f, p, TRUE).page.TotalElements
               = Len(r.results)
            /\ CountByFilters(table, f, p, TRUE).count = Len(r.results)

====
